---- MODULE Spec2Model ----
(***************************************************************************)
(* Model of monitor_senapred.py: the extraction of alert records from the  *)
(* listed detail pages (SenapredScraper) and the reconciliation of each    *)
(* extracted batch against the stored alerts (MonitorSenapred).            *)
(* Spec is the polling loop with pages that load; SpecPersistencia is      *)
(* _guardar_estado and _cargar_estado on their own; SpecMonitor is         *)
(* ejecutar with its except branches, interrupts and a two-step file       *)
(* write; SpecExtraccion is one obtener_alertas call with failing pages;   *)
(* SpecIdentidad applies generar_id_desde_url to pairs of URLs;            *)
(* SpecHistoria is the loop late in the life of a process, the log near    *)
(* the length the file keeps; SpecDetalle is _extraer_detalle_completo on  *)
(* one URL and one page text; SpecFallo is the polling loop with fetches   *)
(* that fail.                                                              *)
(*                                                                         *)
(* Strings are sequences of one-character tokens where the code looks      *)
(* inside them (URLs), and opaque values where it only compares them.      *)
(* A page text is the record of what the code's substring tests and        *)
(* regular expressions find in it.  A calendar date is <<d>>, d the day    *)
(* number; the empty string is <<>>.                                       *)
(***************************************************************************)
EXTENDS Integers, Sequences, FiniteSets, TLC

(***************************************************************************)
(* Bounds of the exploration.                                              *)
(***************************************************************************)
\* longest listing of detail URLs one poll returns
MaxUrls == 2
\* detail pages fetched over a whole run
MaxVisitas == 2

(***************************************************************************)
(* Program constants.                                                      *)
(***************************************************************************)
\* dias_max, the default of SenapredScraper.__init__ and of --dias
DiasMax == 14
\* generar_id_desde_url keeps the first 80 characters of the last segment
LargoId == 80
\* _guardar_estado writes self.cambios[-100:]
CambiosGuardados == 100

REGIONES_CHILE ==
  << "Arica y Parinacota", "Tarapacá", "Antofagasta", "Atacama", "Coquimbo",
     "Valparaíso", "Metropolitana", "O'Higgins", "Maule", "Ñuble", "Biobío",
     "La Araucanía", "Los Ríos", "Los Lagos", "Aysén", "Magallanes" >>

\* the keyword -> label table of _extraer_amenaza, in its insertion order
AMENAZAS ==
  << <<"calor extremo", "Calor Extremo">>,
     <<"calor intenso", "Calor Intenso">>,
     <<"altas temperaturas", "Altas Temperaturas">>,
     <<"incendio forestal", "Incendio Forestal">>,
     <<"incendios forestales", "Incendios Forestales">>,
     <<"tsunami", "Tsunami">>,
     <<"sismo", "Sismo">>,
     <<"terremoto", "Terremoto">>,
     <<"marejadas", "Marejadas">>,
     <<"temporal", "Temporal">>,
     <<"lluvias intensas", "Lluvias Intensas">>,
     <<"vientos fuertes", "Vientos Fuertes">>,
     <<"nevazón", "Nevazón">>,
     <<"actividad volcánica", "Actividad Volcánica">>,
     <<"aluvión", "Aluvión">>,
     <<"deslizamiento", "Deslizamiento">> >>

(***************************************************************************)
(* The universe the model draws its inputs from.                           *)
(***************************************************************************)
\* Days the clock can show (datetime.now(), in whole days): a URL stamped
\* day 0 is DiasMax days old on the first and one day older on the second.
Dias == {14, 15}

\* A token "@d" stands for the 19 characters YYYY-MM-DD-hh-mm-ss of day d.
MarcasDeTiempo == {"@0", "@20"}

DiaDeMarca(c) == CASE c = "@0" -> 0
                   [] c = "@20" -> 20

\* Detail URLs the listing page can link to.  "s" and "t" stand for two
\* prefixes (scheme, host and path up to the last segment).
Urls ==
  { <<"s", "/", "a">>,          \* .../a
    <<"t", "/", "a">>,          \* another address with the same last segment
    <<"s", "/", "A">>,          \* differs from the first in letter case only
    <<"s", "/", "b", "@0">> }   \* last segment ends with a time stamp of day 0

\* Page texts.  marcas: the category phrases found in the lowercased text;
\* regiones: the region names found in it; frase_region: <<x>>, x what the
\* pattern "región de/del/de la X" captures, <<>> when it does not match; claves:
\* the hazard keywords found; cabecera: the first 1000 characters.
Textos ==
  { [marcas |-> {}, regiones |-> {"Valparaíso"}, frase_region |-> <<>>,
     claves |-> {"incendio forestal"}, cabecera |-> "c1"],
    [marcas |-> {"alerta roja"}, regiones |-> {"Valparaíso"}, frase_region |-> <<>>,
     claves |-> {"incendio forestal"}, cabecera |-> "c1"],
    [marcas |-> {"alerta roja", "alerta amarilla"}, regiones |-> {"Maule", "Coquimbo"},
     frase_region |-> <<>>, claves |-> {"temporal", "calor intenso"}, cabecera |-> "c2"] }

\* A page whose extraction raises (driver.get times out, the page source
\* cannot be parsed): what its text would hold is never looked at.
PaginaRota ==
  [excepcion |-> "TimeoutException", marcas |-> {"alerta roja"},
   regiones |-> {"Valparaíso"}, frase_region |-> <<>>,
   claves |-> {"incendio forestal"}, cabecera |-> "c1"]

\* the text handed to a URL the loop never fetches
SinTexto == [marcas |-> {}, regiones |-> {}, frase_region |-> <<>>,
             claves |-> {}, cabecera |-> "c1"]

(***************************************************************************)
(* Utilities (module level functions of the source).                       *)
(***************************************************************************)
\* str.lower() on one character
LowerChar(c) ==
  CASE c = "A" -> "a"
    [] c = "B" -> "b"
    [] c = "S" -> "s"
    [] c = "T" -> "t"
    [] OTHER -> c

\* str.lower()
Lower(s) == [i \in 1..Len(s) |-> LowerChar(s[i])]

\* str.rstrip('/')
RECURSIVE RStripSlash(_)
RStripSlash(s) ==
  IF s # <<>> /\ s[Len(s)] = "/" THEN RStripSlash(SubSeq(s, 1, Len(s) - 1)) ELSE s

\* s.split('/')[-1]: what follows the last "/" (all of s when it has none)
RECURSIVE UltimaParte(_)
UltimaParte(s) ==
  IF s = <<>> \/ s[Len(s)] = "/" THEN <<>>
  ELSE Append(UltimaParte(SubSeq(s, 1, Len(s) - 1)), s[Len(s)])

\* number of characters a token stands for
LargoToken(c) == IF c \in MarcasDeTiempo THEN 19 ELSE 1

\* s[:n], counted in characters; a time stamp cut in the middle is dropped
\* from the model's universe (no URL of Urls is that long)
RECURSIVE Prefijo(_, _)
Prefijo(s, n) ==
  IF s = <<>> \/ LargoToken(Head(s)) > n THEN <<>>
  ELSE <<Head(s)>> \o Prefijo(Tail(s), n - LargoToken(Head(s)))

\* datetime.now().strftime("%d/%m/%Y") and the other renderings of a day
Strftime(dia) == <<dia>>

\* parsear_fecha_desde_url: the pattern is anchored at the end of the URL
parsear_fecha_desde_url(url) ==
  IF url # <<>> /\ url[Len(url)] \in MarcasDeTiempo
  THEN [fecha |-> <<DiaDeMarca(url[Len(url)])>>, hora |-> "hh:mm"]
  ELSE [fecha |-> <<>>, hora |-> ""]

\* calcular_antiguedad_dias: (datetime.now() - fecha).days, 0 for ""
calcular_antiguedad_dias(fecha_str, ahora) ==
  IF fecha_str # <<>> THEN ahora - fecha_str[1] ELSE 0

\* generar_id_desde_url: the split never returns an empty list, so the
\* md5 branch is dead
generar_id_desde_url(url) == Prefijo(UltimaParte(RStripSlash(url)), LargoId)

\* hashlib.md5(texto_completo[:1000].encode()).hexdigest()[:16]
Md5Hex16(cabecera) ==
  CASE cabecera = "c1" -> "1f3870be274f6c49"
    [] cabecera = "c2" -> "b0804ec967f48520"

(***************************************************************************)
(* SenapredScraper: extraction of one record.                              *)
(***************************************************************************)
\* Optional[Alerta]: <<>> is None, <<a>> is the record a
None == <<>>

\* a slip: the last branch made the default instead of returning None
detectar_tipo_por_defecto(texto) ==
  IF "alerta roja" \in texto.marcas THEN "roja"
  ELSE IF "alerta amarilla" \in texto.marcas THEN "amarilla"
  ELSE "temprana"

\* _detectar_tipo; "" stands for None (both are false in `if not tipo`)
detectar_tipo(texto) ==
  IF "alerta roja" \in texto.marcas THEN "roja"
  ELSE IF "alerta amarilla" \in texto.marcas THEN "amarilla"
  ELSE IF "alerta temprana" \in texto.marcas \/ "preventiva" \in texto.marcas
       THEN "temprana"
  ELSE ""

\* _extraer_nivel_alerta
extraer_nivel_alerta(texto) ==
  IF "alerta roja" \in texto.marcas THEN "Alerta Roja"
  ELSE IF "alerta amarilla" \in texto.marcas THEN "Alerta Amarilla"
  ELSE IF "alerta temprana preventiva" \in texto.marcas
       THEN "Alerta Temprana Preventiva"
  ELSE "No especificado"

\* a slip: the sentinel forgotten, the field left empty
extraer_region_sin_centinela(texto) ==
  LET halladas == {i \in 1..Len(REGIONES_CHILE) : REGIONES_CHILE[i] \in texto.regiones}
  IN  IF halladas # {}
      THEN REGIONES_CHILE[CHOOSE i \in halladas : \A j \in halladas : i <= j]
      ELSE IF texto.frase_region # <<>> THEN texto.frase_region[1]
      ELSE ""

\* _extraer_region: the first name of REGIONES_CHILE found, else the
\* capture of the pattern, else the sentinel
extraer_region(texto) ==
  LET halladas == {i \in 1..Len(REGIONES_CHILE) : REGIONES_CHILE[i] \in texto.regiones}
  IN  IF halladas # {}
      THEN REGIONES_CHILE[CHOOSE i \in halladas : \A j \in halladas : i <= j]
      ELSE IF texto.frase_region # <<>> THEN texto.frase_region[1]
      ELSE "No especificada"

\* a slip: the loop not left at the first keyword found, so the last one wins
extraer_amenaza_ultima(texto) ==
  LET halladas == {i \in 1..Len(AMENAZAS) : AMENAZAS[i][1] \in texto.claves}
  IN  IF halladas # {}
      THEN AMENAZAS[CHOOSE i \in halladas : \A j \in halladas : i >= j][2]
      ELSE "Emergencia"

\* _extraer_amenaza: the label of the first table entry whose keyword is found
extraer_amenaza(texto) ==
  LET halladas == {i \in 1..Len(AMENAZAS) : AMENAZAS[i][1] \in texto.claves}
  IN  IF halladas # {}
      THEN AMENAZAS[CHOOSE i \in halladas : \A j \in halladas : i <= j][2]
      ELSE "Emergencia"

\* a slip: the exception of one page not noticed
falla_ignorada(texto) == FALSE

\* whether a statement inside the try block of _extraer_detalle_completo
\* raises for this page
falla_al_extraer(texto) == "excepcion" \in DOMAIN texto

\* _extraer_detalle_completo: None when the try block raises (`except
\* Exception` logs and returns None) or the page has no category.  The
\* free-text fields (provincias, comunas, descripcion, ...) are captures no
\* branch depends on and are left out of the record.
extraer_detalle_completo(url, texto, ahora) ==
  LET f == parsear_fecha_desde_url(url)
      tipo == detectar_tipo(texto)
  IN  IF falla_al_extraer(texto) THEN None
      ELSE IF tipo = "" THEN None
      ELSE << [ id |-> generar_id_desde_url(url),
                url |-> url,
                tipo |-> tipo,
                nivel_alerta |-> extraer_nivel_alerta(texto),
                region |-> extraer_region(texto),
                amenaza |-> extraer_amenaza(texto),
                fecha_declaracion |-> IF f.fecha # <<>> THEN f.fecha ELSE Strftime(ahora),
                hora_declaracion |-> IF f.hora # "" THEN f.hora ELSE "--:--",
                fecha_deteccion |-> Strftime(ahora),
                estado_monitor |-> "activa",
                contenido_hash |-> Md5Hex16(texto.cabecera),
                dias_antiguedad |-> IF f.fecha # <<>>
                                    THEN calcular_antiguedad_dias(f.fecha, ahora)
                                    ELSE 0 ] >>

(***************************************************************************)
(* SenapredScraper.obtener_alertas: the loop over the listed URLs.         *)
(***************************************************************************)
\* a slip: the batch is searched by URL instead of by id
id_en_lista_por_url(alertas, alerta) ==
  \E k \in 1..Len(alertas) : alertas[k].url = alerta.url

\* any(a.id == alerta.id for a in alertas)
id_en_lista(alertas, alerta) == \E k \in 1..Len(alertas) : alertas[k].id = alerta.id

\* url.rstrip('/').lower()
url_normalizada(url) == Lower(RStripSlash(url))

\* a slip: the age filter left out
sin_filtro_de_antiguedad(url, ahora) == FALSE

\* the age filter: a date in the URL that is more than dias_max days old
demasiado_antigua(url, ahora) ==
  LET fecha_url == parsear_fecha_desde_url(url).fecha
  IN  fecha_url # <<>> /\ calcular_antiguedad_dias(fecha_url, ahora) > DiasMax

\* a slip: the test for a record of the same id left out
se_agrega_sin_dedup(alertas, alerta) == alerta # None

\* `if alerta and not any(...)`: whether the extracted record joins the batch
se_agrega(alertas, alerta) == alerta # None /\ ~id_en_lista(alertas, alerta[1])

\* The loop from index i on.  e is the loop's state: the batch so far, the
\* normalized URLs seen, and the indices whose page was fetched.
RECURSIVE bucle_urls(_, _, _, _, _)
bucle_urls(urls_alertas, textos, ahora, i, e) ==
  IF i > Len(urls_alertas) THEN e
  ELSE
    LET url == urls_alertas[i]
        norm == url_normalizada(url)
    IN  IF norm \in e.urls_procesadas
        THEN bucle_urls(urls_alertas, textos, ahora, i + 1, e)
        ELSE
          LET vistas == e.urls_procesadas \cup {norm}
          IN  IF demasiado_antigua(url, ahora)
              THEN bucle_urls(urls_alertas, textos, ahora, i + 1,
                              [e EXCEPT !.urls_procesadas = vistas])
              ELSE
                LET alerta == extraer_detalle_completo(url, textos[i], ahora)
                IN  bucle_urls(urls_alertas, textos, ahora, i + 1,
                      [ alertas |-> IF se_agrega(e.alertas, alerta)
                                    THEN Append(e.alertas, alerta[1])
                                    ELSE e.alertas,
                        urls_procesadas |-> vistas,
                        extraidas |-> e.extraidas \cup {i} ])

\* obtener_alertas with a browser that starts and pages that load: [] for
\* an empty listing, else the loop's batch
obtener_alertas(urls_alertas, textos, ahora) ==
  bucle_urls(urls_alertas, textos, ahora, 1,
             [alertas |-> <<>>, urls_procesadas |-> {}, extraidas |-> {}])

(***************************************************************************)
(* MonitorSenapred: the store.  self.alertas is a dict; the model keeps    *)
(* its values in insertion order, one record per key.                      *)
(***************************************************************************)
\* id in self.alertas
en_almacen(alertas, id) == \E k \in 1..Len(alertas) : alertas[k].id = id

\* self.alertas[id]
guardada(alertas, id) == alertas[CHOOSE k \in 1..Len(alertas) : alertas[k].id = id]

\* a slip: the record of a key that is already there is not replaced
asignar_sin_reemplazo(alertas, alerta) ==
  IF en_almacen(alertas, alerta.id) THEN alertas ELSE Append(alertas, alerta)

\* self.alertas[alerta.id] = alerta: a new key goes last, an old key keeps
\* its place
asignar(alertas, alerta) ==
  IF en_almacen(alertas, alerta.id)
  THEN [k \in 1..Len(alertas) |->
          IF alertas[k].id = alerta.id THEN alerta ELSE alertas[k]]
  ELSE Append(alertas, alerta)

\* CambioEstado(alerta_id, tipo_cambio, fecha_hora, descripcion)
CambioEstado(alerta_id, tipo_cambio, fecha_hora, descripcion) ==
  [alerta_id |-> alerta_id, tipo_cambio |-> tipo_cambio,
   fecha_hora |-> fecha_hora, descripcion |-> descripcion]

(***************************************************************************)
(* MonitorSenapred._detectar_cambios                                       *)
(***************************************************************************)
\* `alerta.id not in self.alertas`
es_nueva(alertas, alerta) == ~en_almacen(alertas, alerta.id)

\* a slip: the category compared instead of the fingerprint
contenido_cambiado_por_tipo(alertas, alerta) ==
  alerta.tipo # guardada(alertas, alerta.id).tipo

\* a slip: the whole records compared instead of their fingerprints
contenido_cambiado_registro(alertas, alerta) ==
  alerta # guardada(alertas, alerta.id)

\* `alerta.contenido_hash != self.alertas[alerta.id].contenido_hash`
contenido_cambiado(alertas, alerta) ==
  alerta.contenido_hash # guardada(alertas, alerta.id).contenido_hash

\* a slip: `in` for `not in`
falta_en_lote_invertida(id_alerta, ids_actuales) == id_alerta \in ids_actuales

\* `id_alerta not in ids_actuales`
falta_en_lote(id_alerta, ids_actuales) == id_alerta \notin ids_actuales

\* a slip: the test of the stored status left out
sigue_activa_sin_guardia(alerta) == TRUE

\* a slip: `==` for `!=`
sigue_activa_invertida(alerta) == alerta.estado_monitor = "cancelada"

\* `alerta.estado_monitor != "cancelada"`
sigue_activa(alerta) == alerta.estado_monitor # "cancelada"

\* `ids_actuales = {a.id for a in nuevas_alertas}`
ids_de(nuevas_alertas) == {nuevas_alertas[i].id : i \in 1..Len(nuevas_alertas)}

\* The first loop, from index i on.  e holds self.alertas, self.cambios and
\* the three result lists.
RECURSIVE bucle_lote(_, _, _, _)
bucle_lote(nuevas_alertas, ahora, i, e) ==
  IF i > Len(nuevas_alertas) THEN e
  ELSE
    LET alerta == nuevas_alertas[i]
    IN  IF es_nueva(e.alertas, alerta)
        THEN bucle_lote(nuevas_alertas, ahora, i + 1,
               [e EXCEPT !.nuevas = Append(@, alerta),
                         !.alertas = asignar(@, alerta),
                         !.cambios = Append(@, CambioEstado(alerta.id, "nueva", ahora,
                            <<alerta.nivel_alerta, alerta.region, alerta.amenaza>>))])
        ELSE IF contenido_cambiado(e.alertas, alerta)
        THEN bucle_lote(nuevas_alertas, ahora, i + 1,
               [e EXCEPT !.actualizadas = Append(@, alerta),
                         !.alertas = asignar(@, alerta),
                         !.cambios = Append(@, CambioEstado(alerta.id, "actualizada", ahora,
                            <<alerta.nivel_alerta, alerta.region>>))])
        ELSE bucle_lote(nuevas_alertas, ahora, i + 1, e)

\* The second loop, over list(self.alertas.keys()) from position k on.
RECURSIVE bucle_almacen(_, _, _, _)
bucle_almacen(ids_actuales, ahora, k, e) ==
  IF k > Len(e.alertas) THEN e
  ELSE
    LET alerta == e.alertas[k]
    IN  IF falta_en_lote(alerta.id, ids_actuales) /\ sigue_activa(alerta)
        THEN LET cancelada == [alerta EXCEPT !.estado_monitor = "cancelada"]
             IN  bucle_almacen(ids_actuales, ahora, k + 1,
                   [e EXCEPT !.alertas[k] = cancelada,
                             !.canceladas = Append(@, cancelada),
                             !.cambios = Append(@, CambioEstado(alerta.id, "cancelada", ahora,
                                <<alerta.nivel_alerta, alerta.region>>))])
        ELSE bucle_almacen(ids_actuales, ahora, k + 1, e)

\* _detectar_cambios: the store and the log after the call, and the three
\* lists it returns
detectar_cambios(alertas, cambios, nuevas_alertas, ahora) ==
  LET ids_actuales == ids_de(nuevas_alertas)
      e0 == [alertas |-> alertas, cambios |-> cambios,
             nuevas |-> <<>>, actualizadas |-> <<>>, canceladas |-> <<>>]
  IN  bucle_almacen(ids_actuales, Strftime(ahora), 1,
                    bucle_lote(nuevas_alertas, Strftime(ahora), 1, e0))

(***************************************************************************)
(* MonitorSenapred._guardar_estado                                         *)
(***************************************************************************)
\* a slip: the first n events kept instead of the last n
Primeros(s, n) == IF Len(s) <= n THEN s ELSE SubSeq(s, 1, n)

\* a slip: the whole log written, no retention window
SinRecorte(s, n) == s

\* self.cambios[-n:]
Ultimos(s, n) == IF Len(s) <= n THEN s ELSE SubSeq(s, Len(s) - n + 1, Len(s))

\* Alerta.to_dict / asdict: every field under its own name
to_dict(a) == a

\* CONFIG['archivo_estado'] when os.path.exists says no
ArchivoAusente == [existe |-> FALSE, json_valido |-> FALSE, alertas |-> <<>>, cambios |-> <<>>]

\* a slip: only the records that are not retracted are written (the list
\* ejecutar hands to the dashboard)
estado_guardado_solo_activas(alertas, cambios) ==
  [existe |-> TRUE,
   json_valido |-> TRUE,
   alertas |-> SelectSeq(alertas, LAMBDA a : a.estado_monitor # "cancelada"),
   cambios |-> Ultimos(cambios, CambiosGuardados)]

\* what json.dump writes into archivo_estado when it runs to its end: a JSON
\* object with the list of the records and the list of the last events
estado_guardado(alertas, cambios) ==
  [existe |-> TRUE,
   json_valido |-> TRUE,
   alertas |-> [k \in 1..Len(alertas) |-> to_dict(alertas[k])],
   cambios |-> Ultimos(cambios, CambiosGuardados)]

(***************************************************************************)
(* MonitorSenapred._cargar_estado.  A JSON object of the file is a         *)
(* function from keys to values; the constructor call on its keys raises   *)
(* TypeError when a key is not a field or a field without default has no   *)
(* key.                                                                    *)
(***************************************************************************)
\* the fields of Alerta that the model keeps
CamposAlerta ==
  {"id", "url", "tipo", "nivel_alerta", "region", "amenaza", "fecha_declaracion",
   "hora_declaracion", "fecha_deteccion", "estado_monitor", "contenido_hash",
   "dias_antiguedad"}

\* `dias_antiguedad: int = 0` is the one field with a default
CamposConDefecto == {"dias_antiguedad"}

CamposCambio == {"alerta_id", "tipo_cambio", "fecha_hora", "descripcion"}

\* whether Alerta(..a) returns
alerta_bien_formada(a) ==
  /\ DOMAIN a \subseteq CamposAlerta
  /\ (CamposAlerta \ CamposConDefecto) \subseteq DOMAIN a

\* Alerta(..a)
Alerta_de(a) == [c \in CamposAlerta |-> IF c \in DOMAIN a THEN a[c] ELSE 0]

\* whether CambioEstado(..c) returns
cambio_bien_formado(c) == DOMAIN c = CamposCambio

\* CambioEstado(..c)
CambioEstado_de(c) ==
  CambioEstado(c["alerta_id"], c["tipo_cambio"], c["fecha_hora"], c["descripcion"])

\* `for a in data.get('alertas', []): self.alertas[a['id']] = Alerta(..a)`
\* from entry k on; ok is FALSE when an entry raised, and the records
\* assigned before it stay in self.alertas
RECURSIVE cargar_alertas(_, _, _)
cargar_alertas(entradas, k, alertas) ==
  IF k > Len(entradas) THEN [alertas |-> alertas, ok |-> TRUE]
  ELSE IF ~alerta_bien_formada(entradas[k]) THEN [alertas |-> alertas, ok |-> FALSE]
  ELSE cargar_alertas(entradas, k + 1, asignar(alertas, Alerta_de(entradas[k])))

\* `for c in data.get('cambios', []): self.cambios.append(CambioEstado(..c))`
\* on an empty log: the entries before the first one that raises are
\* appended, in order
cargar_cambios(entradas) ==
  LET malas == {k \in 1..Len(entradas) : ~cambio_bien_formado(entradas[k])}
      n == IF malas = {} THEN Len(entradas)
           ELSE (CHOOSE k \in malas : \A j \in malas : k <= j) - 1
  IN  [cambios |-> [k \in 1..n |-> CambioEstado_de(entradas[k])], ok |-> malas = {}]

\* _cargar_estado on a monitor whose store and log are empty: the store and
\* the log it leaves, and whether the except branch logged its warning
cargar_estado(arch) ==
  IF ~arch.existe
  THEN [alertas |-> <<>>, cambios |-> <<>>, aviso |-> FALSE]
  ELSE IF ~arch.json_valido
  THEN [alertas |-> <<>>, cambios |-> <<>>, aviso |-> TRUE]
  ELSE LET a == cargar_alertas(arch.alertas, 1, <<>>)
       IN  IF ~a.ok THEN [alertas |-> a.alertas, cambios |-> <<>>, aviso |-> TRUE]
           ELSE LET c == cargar_cambios(arch.cambios)
                IN  [alertas |-> a.alertas, cambios |-> c.cambios, aviso |-> ~c.ok]

(***************************************************************************)
(* State.                                                                  *)
(***************************************************************************)
VARIABLES
  pc,             \* where ejecutar's loop stands
  hoy,            \* the day datetime.now() shows
  alertas,        \* self.alertas, in insertion order
  cambios,        \* self.cambios
  archivo,        \* contents of CONFIG['archivo_estado']
  lote,           \* ejecutar's local `alertas`: the last batch fetched
  resultado,      \* ejecutar's locals nuevas, actualizadas, canceladas
  urls_alertas,   \* the listing this cycle's obtener_alertas got
  textos,         \* the page text each listed URL served
  lote_anterior,  \* <<b>>, b the batch the cycle before this one reconciled; <<>> in the first cycle
  previo,         \* self.alertas and len(self.cambios) when _detectar_cambios began
  visitas,        \* detail pages fetched so far
  archivo_anterior, \* what archivo held before the last open(..., 'w')
  prueba          \* the inputs and results of the function under test

vars == << pc, hoy, alertas, cambios, archivo, lote, resultado,
           urls_alertas, textos, lote_anterior, previo, visitas,
           archivo_anterior, prueba >>

\* no function under test
SinPrueba == [nombre |-> "ninguna"]

SinResultado == [nuevas |-> <<>>, actualizadas |-> <<>>, canceladas |-> <<>>]

SinPrevio == [alertas |-> <<>>, n_cambios |-> 0]

\* injective sequences of URLs: _obtener_lista_urls appends a URL only if
\* it is not in the list yet
RECURSIVE Listados(_)
Listados(n) ==
  IF n = 0 THEN {<<>>}
  ELSE LET cortos == Listados(n - 1)
       IN  cortos \cup
           { Append(l, u) : <<l, u>> \in
               { p \in cortos \X Urls :
                   /\ Len(p[1]) = n - 1
                   /\ \A k \in 1..Len(p[1]) : p[1][k] # p[2] } }

\* MonitorSenapred.__init__ with no state file: _cargar_estado finds
\* nothing and the store starts empty
Init ==
  /\ pc = "consultar"
  /\ hoy = CHOOSE d \in Dias : \A e \in Dias : d <= e
  /\ alertas = <<>>
  /\ cambios = <<>>
  /\ archivo = ArchivoAusente
  /\ lote = <<>>
  /\ resultado = SinResultado
  /\ urls_alertas = <<>>
  /\ textos = <<>>
  /\ lote_anterior = <<>>
  /\ previo = SinPrevio
  /\ visitas = 0
  /\ archivo_anterior = ArchivoAusente
  /\ prueba = SinPrueba

(***************************************************************************)
(* ejecutar: one iteration of the loop, step by step.                      *)
(***************************************************************************)
\* what alertas = self.scraper.obtener_alertas() does to the state of the
\* monitor, the listed pages serving texts of `paginas`
Consultar(paginas) ==
  /\ pc = "consultar"
  /\ \E urls \in Listados(MaxUrls) :
       LET extraidas == obtener_alertas(urls, [i \in 1..Len(urls) |-> SinTexto], hoy).extraidas
       IN  /\ visitas + Cardinality(extraidas) <= MaxVisitas
           /\ \E tx \in [1..Len(urls) -> paginas \cup {SinTexto}] :
                /\ \A i \in 1..Len(urls) : (tx[i] = SinTexto) <=> (i \notin extraidas)
                /\ urls_alertas' = urls
                /\ textos' = tx
                /\ lote' = obtener_alertas(urls, tx, hoy).alertas
                /\ visitas' = visitas + Cardinality(extraidas)
  /\ pc' = "detectar"
  /\ UNCHANGED << hoy, alertas, cambios, archivo, resultado, lote_anterior, previo,
                  archivo_anterior >>

\* alertas = self.scraper.obtener_alertas(), the listed pages serving texts
\* of `paginas`
ObtenerAlertasCon(paginas) == Consultar(paginas) /\ UNCHANGED prueba

\* the same, every page loading
ObtenerAlertas == ObtenerAlertasCon(Textos)

\* nuevas, actualizadas, canceladas = self._detectar_cambios(alertas)
DetectarCambios ==
  /\ pc = "detectar"
  /\ LET r == detectar_cambios(alertas, cambios, lote, hoy)
     IN  /\ alertas' = r.alertas
         /\ cambios' = r.cambios
         /\ resultado' = [nuevas |-> r.nuevas, actualizadas |-> r.actualizadas,
                          canceladas |-> r.canceladas]
  /\ previo' = [alertas |-> alertas, n_cambios |-> Len(cambios)]
  /\ pc' = "guardar"
  /\ UNCHANGED << hoy, archivo, lote, urls_alertas, textos, lote_anterior, visitas,
                  archivo_anterior, prueba >>

\* `if nuevas or actualizadas or canceladas:` ... self._guardar_estado()
hay_cambios(res) == res.nuevas # <<>> \/ res.actualizadas # <<>> \/ res.canceladas # <<>>

GuardarEstado ==
  /\ pc = "guardar"
  /\ archivo' = IF hay_cambios(resultado) THEN estado_guardado(alertas, cambios) ELSE archivo
  /\ pc' = "dormir"
  /\ UNCHANGED << hoy, alertas, cambios, lote, resultado, urls_alertas, textos,
                  lote_anterior, previo, visitas, archivo_anterior, prueba >>

\* time.sleep(self.intervalo): the clock moves on, or not, and the loop
\* starts over
Dormir ==
  /\ pc = "dormir"
  /\ hoy' \in {d \in Dias : d >= hoy}
  /\ pc' = "consultar"
  /\ urls_alertas' = <<>>
  /\ textos' = <<>>
  /\ lote_anterior' = <<lote>>
  /\ previo' = SinPrevio
  /\ UNCHANGED << alertas, cambios, archivo, lote, resultado, visitas,
                  archivo_anterior, prueba >>

Next == ObtenerAlertas \/ DetectarCambios \/ GuardarEstado \/ Dormir

Spec == Init /\ [][Next]_vars

(***************************************************************************)
(* Vocabulary of the properties.                                           *)
(***************************************************************************)
\* _detectar_cambios has run in the current cycle
Reconciliado == pc \in {"guardar", "dormir"}

\* obtener_alertas has run in the current cycle
Consultado == pc \in {"detectar", "guardar", "dormir"}

\* the events the current cycle appended to self.cambios
EventosDelCiclo == SubSeq(cambios, previo.n_cambios + 1, Len(cambios))

\* how many events of the current cycle are about id / are of that kind
NumEventos(id) ==
  Cardinality({k \in 1..Len(EventosDelCiclo) : EventosDelCiclo[k].alerta_id = id})

NumEventosDeTipo(id, tipo_cambio) ==
  Cardinality({k \in 1..Len(EventosDelCiclo) :
                 /\ EventosDelCiclo[k].alerta_id = id
                 /\ EventosDelCiclo[k].tipo_cambio = tipo_cambio})

IdsDelLote == {lote[i].id : i \in 1..Len(lote)}

IdsGuardados(almacen) == {almacen[k].id : k \in 1..Len(almacen)}

(***************************************************************************)
(* C1.  Reconciliation is idempotent: when _detectar_cambios is called     *)
(* with the batch the call before it got, the second call appends no       *)
(* change event and leaves every stored record as it was.                  *)
(***************************************************************************)
C1_Idempotente ==
  (Reconciliado /\ lote_anterior = <<lote>>)
    => /\ EventosDelCiclo = <<>>
       /\ alertas = previo.alertas

\* a non-empty batch reconciled twice in a row, the first call having
\* logged events
C1_Testigo ==
  /\ Reconciliado
  /\ lote_anterior = <<lote>>
  /\ lote # <<>>
  /\ cambios # <<>>

(***************************************************************************)
(* C2.  absent -> active: a batch record whose id is not a key of the      *)
(* store gets exactly one "nueva" event, and afterwards the store maps     *)
(* its id to that batch record, with status "activa".                      *)
(***************************************************************************)
C2_AusenteActiva ==
  Reconciliado =>
    \A i \in 1..Len(lote) :
      lote[i].id \notin IdsGuardados(previo.alertas)
        => /\ NumEventosDeTipo(lote[i].id, "nueva") = 1
           /\ NumEventos(lote[i].id) = 1
           /\ en_almacen(alertas, lote[i].id)
           /\ guardada(alertas, lote[i].id) = lote[i]
           /\ guardada(alertas, lote[i].id).estado_monitor = "activa"

\* a new id arrives while the store already holds another one
C2_Testigo ==
  /\ Reconciliado
  /\ previo.alertas # <<>>
  /\ \E i \in 1..Len(lote) : lote[i].id \notin IdsGuardados(previo.alertas)

(***************************************************************************)
(* C3.  active -> active, content changed: a batch record whose id is in   *)
(* the store with another contenido_hash gets exactly one "actualizada"    *)
(* event and replaces the stored record.                                   *)
(***************************************************************************)
C3_Actualizada ==
  Reconciliado =>
    \A i \in 1..Len(lote) :
      ( /\ lote[i].id \in IdsGuardados(previo.alertas)
        /\ lote[i].contenido_hash # guardada(previo.alertas, lote[i].id).contenido_hash )
        => /\ NumEventosDeTipo(lote[i].id, "actualizada") = 1
           /\ NumEventos(lote[i].id) = 1
           /\ guardada(alertas, lote[i].id) = lote[i]

C3_Testigo ==
  /\ Reconciliado
  /\ \E i \in 1..Len(lote) :
       /\ lote[i].id \in IdsGuardados(previo.alertas)
       /\ guardada(previo.alertas, lote[i].id).estado_monitor = "activa"
       /\ lote[i].contenido_hash # guardada(previo.alertas, lote[i].id).contenido_hash

(***************************************************************************)
(* C4.  active -> active, unchanged: a batch record whose id is in the     *)
(* store with the same contenido_hash gets no event, and the stored        *)
(* record stays exactly as it was, whatever else differs in the batch      *)
(* record.                                                                 *)
(***************************************************************************)
C4_SinCambio ==
  Reconciliado =>
    \A i \in 1..Len(lote) :
      ( /\ lote[i].id \in IdsGuardados(previo.alertas)
        /\ lote[i].contenido_hash = guardada(previo.alertas, lote[i].id).contenido_hash )
        => /\ NumEventos(lote[i].id) = 0
           /\ guardada(alertas, lote[i].id) = guardada(previo.alertas, lote[i].id)

\* same fingerprint, but the batch record is not the stored one
C4_Testigo ==
  /\ Reconciliado
  /\ \E i \in 1..Len(lote) :
       /\ lote[i].id \in IdsGuardados(previo.alertas)
       /\ lote[i].contenido_hash = guardada(previo.alertas, lote[i].id).contenido_hash
       /\ lote[i] # guardada(previo.alertas, lote[i].id)
       /\ guardada(previo.alertas, lote[i].id).estado_monitor = "activa"

(***************************************************************************)
(* C5.  active -> retracted: in every step, each id of the store is still  *)
(* in the store afterwards; and when _detectar_cambios runs, each stored   *)
(* record that is not "cancelada" and whose id is not in the batch gets    *)
(* exactly one "cancelada" event and is kept with its status set to        *)
(* "cancelada", its other fields untouched.                                *)
(***************************************************************************)
C5_Paso ==
  /\ IdsGuardados(alertas) \subseteq IdsGuardados(alertas')
  /\ pc = "detectar" =>
       \A k \in 1..Len(alertas) :
         ( /\ alertas[k].id \notin IdsDelLote
           /\ alertas[k].estado_monitor # "cancelada" )
           => /\ Cardinality({n \in Len(cambios) + 1 .. Len(cambios') :
                                /\ cambios'[n].alerta_id = alertas[k].id
                                /\ cambios'[n].tipo_cambio = "cancelada"}) = 1
              /\ Cardinality({n \in Len(cambios) + 1 .. Len(cambios') :
                                cambios'[n].alerta_id = alertas[k].id}) = 1
              /\ guardada(alertas', alertas[k].id) =
                   [alertas[k] EXCEPT !.estado_monitor = "cancelada"]

\* C5: every step keeps the ids of the store, and _detectar_cambios
\* retracts, once, each active stored id that the batch lacks
C5_Retirada == [][C5_Paso]_vars

\* one stored alert was retracted while another stayed in the batch
C5_Testigo ==
  /\ Reconciliado
  /\ lote # <<>>
  /\ \E k \in 1..Len(previo.alertas) :
       /\ previo.alertas[k].id \notin IdsDelLote
       /\ previo.alertas[k].estado_monitor = "activa"
       /\ guardada(alertas, previo.alertas[k].id).estado_monitor = "cancelada"

(***************************************************************************)
(* C6.  Retraction is emitted exactly once per disappearance: a stored id  *)
(* that is absent from the batch gets one "cancelada" event, and no other  *)
(* event, in the first cycle of its absence (it was in the batch of the    *)
(* cycle before), and no event at all in a cycle that follows another      *)
(* cycle of absence.                                                       *)
(***************************************************************************)
C6_UnaVezPorDesaparicion ==
  (Reconciliado /\ lote_anterior # <<>>) =>
    \A id \in IdsGuardados(previo.alertas) \ IdsDelLote :
      IF id \in ids_de(lote_anterior[1])
      THEN NumEventosDeTipo(id, "cancelada") = 1 /\ NumEventos(id) = 1
      ELSE NumEventos(id) = 0

(***************************************************************************)
(* C7.  Reappearance is reactivation: when a batch holds an id whose       *)
(* stored record is "cancelada", then after _detectar_cambios the stored   *)
(* status of that id is "activa" and a "nueva" event was logged for it.    *)
(***************************************************************************)
C7_Reactivacion ==
  Reconciliado =>
    \A i \in 1..Len(lote) :
      ( /\ lote[i].id \in IdsGuardados(previo.alertas)
        /\ guardada(previo.alertas, lote[i].id).estado_monitor = "cancelada" )
        => /\ guardada(alertas, lote[i].id).estado_monitor = "activa"
           /\ NumEventosDeTipo(lote[i].id, "nueva") = 1

(***************************************************************************)
(* C8.  In one cycle (obtener_alertas, then _detectar_cambios) every id    *)
(* gets at most one change event.                                          *)
(***************************************************************************)
C8_UnEventoPorId ==
  Reconciliado =>
    \A k \in 1..Len(EventosDelCiclo) : NumEventos(EventosDelCiclo[k].alerta_id) = 1

\* a cycle that logged an event for a batch record and a retraction
C8_Testigo ==
  /\ Reconciliado
  /\ resultado.canceladas # <<>>
  /\ resultado.nuevas # <<>> \/ resultado.actualizadas # <<>>
  /\ Len(EventosDelCiclo) >= 2

(***************************************************************************)
(* C9.  Batch-internal deduplication: the batch obtener_alertas builds     *)
(* holds at most one record per id, and the record it holds for an id is   *)
(* the one extracted from the first listed URL, in listing order, whose    *)
(* page was fetched and gave a record with that id.                        *)
(***************************************************************************)
\* the listing positions whose page obtener_alertas fetches: the URL is not
\* a repeat of an earlier one after normalisation, and is not too old
Visitadas ==
  {k \in 1..Len(urls_alertas) :
     /\ \A j \in 1..(k - 1) :
          url_normalizada(urls_alertas[j]) # url_normalizada(urls_alertas[k])
     /\ ~demasiado_antigua(urls_alertas[k], hoy)}

\* the listing positions that gave a record with this id
Candidatas(id) ==
  {k \in Visitadas :
     /\ extraer_detalle_completo(urls_alertas[k], textos[k], hoy) # None
     /\ generar_id_desde_url(urls_alertas[k]) = id}

\* C9: one record per id in the batch, the one of the first listed URL that
\* gave a record with that id; no id that gave a record is missing
C9_PrimeraOcurrencia ==
  Consultado =>
    /\ \A i, j \in 1..Len(lote) : lote[i].id = lote[j].id => i = j
    /\ \A i \in 1..Len(lote) :
         /\ Candidatas(lote[i].id) # {}
         /\ LET primera == CHOOSE k \in Candidatas(lote[i].id) :
                             \A j \in Candidatas(lote[i].id) : k <= j
            IN  lote[i] = extraer_detalle_completo(urls_alertas[primera],
                                                   textos[primera], hoy)[1]
    /\ \A k \in Visitadas :
         extraer_detalle_completo(urls_alertas[k], textos[k], hoy) # None
           => generar_id_desde_url(urls_alertas[k]) \in IdsDelLote

\* two listed URLs gave records with the same id
C9_Testigo ==
  /\ Consultado
  /\ \E i \in 1..Len(lote) : Cardinality(Candidatas(lote[i].id)) >= 2

(***************************************************************************)
(* C10.  No-category discard.                                              *)
(***************************************************************************)
\* the listing positions whose fetched text has no category marker
SinCategoria == {k \in Visitadas : textos[k].marcas = {}}

\* C10 as claimed: such a page gives no record, and the cycle emits no
\* change event for the id of its URL, in any store state.  (Events that a
\* record from another listed URL with the same id brings about are not
\* held against the claim.)
C10_SinEvento ==
  Reconciliado =>
    \A k \in SinCategoria :
      /\ extraer_detalle_completo(urls_alertas[k], textos[k], hoy) = None
      /\ generar_id_desde_url(urls_alertas[k]) \notin IdsDelLote
           => NumEventos(generar_id_desde_url(urls_alertas[k])) = 0

\* C10 as amended: such a page gives no record and its URL adds nothing to
\* the batch; the cycle emits no event for the id of the URL, unless
\* another listed URL gave a record with that id, or the id is stored and
\* not "cancelada": then it is absent from the batch and _detectar_cambios
\* retracts it with one "cancelada" event.
C10_Descarte ==
  Reconciliado =>
    \A k \in SinCategoria :
      LET id == generar_id_desde_url(urls_alertas[k])
      IN  /\ extraer_detalle_completo(urls_alertas[k], textos[k], hoy) = None
          /\ \A i \in 1..Len(lote) : lote[i].url # urls_alertas[k]
          /\ id \notin IdsDelLote =>
               IF /\ id \in IdsGuardados(previo.alertas)
                  /\ guardada(previo.alertas, id).estado_monitor # "cancelada"
               THEN NumEventosDeTipo(id, "cancelada") = 1 /\ NumEventos(id) = 1
               ELSE NumEventos(id) = 0

\* a page with a region and a hazard keyword but no category marker was
\* fetched for an id the store does not hold, next to a page that gave a
\* record
C10_Testigo ==
  /\ Reconciliado
  /\ lote # <<>>
  /\ \E k \in SinCategoria :
       /\ textos[k].regiones # {}
       /\ textos[k].claves # {}
       /\ generar_id_desde_url(urls_alertas[k]) \notin IdsGuardados(alertas)

(***************************************************************************)
(* Persistence on its own: a monitor holding some store saves it, the file *)
(* may be damaged from outside, and a new monitor is constructed over the  *)
(* file.                                                                   *)
(***************************************************************************)
\* records in a store under test
MaxRegistros == 2
\* events a log under test has beyond the CambiosGuardados that are written
MaxExceso == 1

\* the records _extraer_detalle_completo builds, as extracted and as
\* _detectar_cambios leaves them when it retracts them
RegistrosDePrueba ==
  LET dia == CHOOSE d \in Dias : \A e \in Dias : d <= e
      pares == {p \in Urls \X Textos : extraer_detalle_completo(p[1], p[2], dia) # None}
      activos == {extraer_detalle_completo(p[1], p[2], dia)[1] : p \in pares}
  IN  activos \cup {[r EXCEPT !.estado_monitor = "cancelada"] : r \in activos}

\* self.alertas values: sequences of up to n records with different ids
RECURSIVE Almacenes(_)
Almacenes(n) ==
  IF n = 0 THEN {<<>>}
  ELSE LET cortos == Almacenes(n - 1)
       IN  cortos \cup
           { Append(p[1], p[2]) : p \in
               { q \in cortos \X RegistrosDePrueba :
                   /\ Len(q[1]) = n - 1
                   /\ ~en_almacen(q[1], q[2].id) } }

\* a log of n events, each with its own time
Historia(n) ==
  [k \in 1..n |->
     CambioEstado(<<"a">>, IF k % 2 = 1 THEN "nueva" ELSE "cancelada", Strftime(k),
                  <<"Alerta Roja", "Valparaíso">>)]

LargosDeHistoria == {0, 1} \cup (CambiosGuardados - 1 .. CambiosGuardados + MaxExceso)

\* a JSON object without one of its keys / with a key that is no field
sin_campo(objeto, campo) == [c \in DOMAIN objeto \ {campo} |-> objeto[c]]

con_campo_extra(objeto) ==
  [c \in DOMAIN objeto \cup {"extra"} |-> IF c = "extra" THEN 0 ELSE objeto[c]]

\* what the file can hold after being damaged: cut short (no JSON value), or
\* one entry of a list without a field or with an unexpected one
Estropeados(arch) ==
  LET extremos(lista) == {k \in 1..Len(lista) : k = 1 \/ k = Len(lista)}
  IN  {[arch EXCEPT !.json_valido = FALSE, !.alertas = <<>>, !.cambios = <<>>]}
      \cup {[arch EXCEPT !.alertas[k] = sin_campo(@, "tipo")] : k \in extremos(arch.alertas)}
      \cup {[arch EXCEPT !.alertas[k] = sin_campo(@, "dias_antiguedad")] :
              k \in extremos(arch.alertas)}
      \cup {[arch EXCEPT !.alertas[k] = con_campo_extra(@)] : k \in extremos(arch.alertas)}
      \cup {[arch EXCEPT !.cambios[k] = sin_campo(@, "descripcion")] :
              k \in extremos(arch.cambios)}

\* a monitor whose store and log hold some value; no state file yet
InitPersistencia ==
  /\ pc = "lleno"
  /\ hoy = CHOOSE d \in Dias : \A e \in Dias : d <= e
  /\ alertas \in Almacenes(MaxRegistros)
  /\ \E n \in LargosDeHistoria : cambios = Historia(n)
  /\ archivo = ArchivoAusente
  /\ lote = <<>>
  /\ resultado = SinResultado
  /\ urls_alertas = <<>>
  /\ textos = <<>>
  /\ lote_anterior = <<>>
  /\ previo = SinPrevio
  /\ visitas = 0
  /\ archivo_anterior = ArchivoAusente
  /\ prueba = [nombre |-> "persistencia", alertas |-> alertas, cambios |-> cambios,
               aviso |-> FALSE]

\* self._guardar_estado()
Guardar ==
  /\ pc = "lleno"
  /\ archivo' = estado_guardado(alertas, cambios)
  /\ archivo_anterior' = archivo
  /\ pc' = "guardado"
  /\ UNCHANGED << hoy, alertas, cambios, lote, resultado, urls_alertas, textos,
                  lote_anterior, previo, visitas, prueba >>

\* the file is damaged before it is read again
Estropear ==
  /\ pc = "guardado"
  /\ archivo' \in Estropeados(archivo)
  /\ pc' = "estropeado"
  /\ UNCHANGED << hoy, alertas, cambios, lote, resultado, urls_alertas, textos,
                  lote_anterior, previo, visitas, archivo_anterior, prueba >>

\* MonitorSenapred(): empty store and log, then self._cargar_estado()
Cargar ==
  /\ pc \in {"lleno", "guardado", "estropeado"}
  /\ LET r == cargar_estado(archivo)
     IN  /\ alertas' = r.alertas
         /\ cambios' = r.cambios
         /\ prueba' = [prueba EXCEPT !.aviso = r.aviso]
  /\ pc' = "cargado"
  /\ UNCHANGED << hoy, archivo, lote, resultado, urls_alertas, textos,
                  lote_anterior, previo, visitas, archivo_anterior >>

NextPersistencia == Guardar \/ Estropear \/ Cargar

SpecPersistencia == InitPersistencia /\ [][NextPersistencia]_vars

\* the file is as _guardar_estado wrote it from the store under test
ArchivoIntacto == archivo = estado_guardado(prueba.alertas, prueba.cambios)

\* the file exists and is no JSON value, or one of its entries has not
\* exactly the fields of its class
ArchivoMalFormado ==
  /\ archivo.existe
  /\ \/ ~archivo.json_valido
     \/ \E k \in 1..Len(archivo.alertas) : DOMAIN archivo.alertas[k] # CamposAlerta
     \/ \E k \in 1..Len(archivo.cambios) : DOMAIN archivo.cambios[k] # CamposCambio

(***************************************************************************)
(* C11.  Round trip: _guardar_estado followed by _cargar_estado into a new *)
(* monitor gives a store equal to the saved one, record for record and     *)
(* event for event, whatever the status of its records and the length of   *)
(* its log.                                                                *)
(***************************************************************************)
C11_IdaYVuelta ==
  (pc = "cargado" /\ ArchivoIntacto)
    => /\ alertas = prueba.alertas
       /\ cambios = prueba.cambios

\* C11 as amended: the records come back equal, field for field and in
\* order; the log comes back equal when it has at most CambiosGuardados
\* events, and otherwise as its last CambiosGuardados events
C11_IdaYVueltaRecortada ==
  (pc = "cargado" /\ ArchivoIntacto)
    => /\ alertas = prueba.alertas
       /\ Len(prueba.cambios) <= CambiosGuardados => cambios = prueba.cambios
       /\ Len(prueba.cambios) > CambiosGuardados =>
            /\ Len(cambios) = CambiosGuardados
            /\ \A k \in 1..CambiosGuardados :
                 cambios[k] = prueba.cambios[Len(prueba.cambios) - CambiosGuardados + k]

\* a store with a retracted record and a log longer than what is written
\* went through the file
C11_Testigo ==
  /\ pc = "cargado"
  /\ ArchivoIntacto
  /\ Len(prueba.cambios) > CambiosGuardados
  /\ \E k \in 1..Len(alertas) : alertas[k].estado_monitor = "cancelada"
  /\ \E k \in 1..Len(alertas) : alertas[k].estado_monitor = "activa"

(***************************************************************************)
(* C12.  _cargar_estado on a missing file gives an empty store; on a       *)
(* malformed file (no valid JSON, or an entry with missing or unexpected   *)
(* fields) it logs a warning and gives a store with no records and no      *)
(* events.                                                                 *)
(***************************************************************************)
C12_CargaVacia ==
  pc = "cargado" =>
    /\ ~archivo.existe => (alertas = <<>> /\ cambios = <<>>)
    /\ ArchivoMalFormado => (alertas = <<>> /\ cambios = <<>> /\ prueba.aviso)

(***************************************************************************)
(* ejecutar as a whole: the dashboard written before the loop, the loop    *)
(* with _guardar_estado in its two steps (open(..., 'w') empties the file, *)
(* json.dump fills it), the two except branches, and the process being     *)
(* killed while the file is written.                                       *)
(***************************************************************************)
\* the file right after open(CONFIG['archivo_estado'], 'w'): it exists and
\* holds no JSON value yet
archivo_abierto == [existe |-> TRUE, json_valido |-> FALSE, alertas |-> <<>>, cambios |-> <<>>]

\* self.alertas and self.cambios at a KeyboardInterrupt inside
\* _detectar_cambios: i batch records have had their store assignment; the
\* event of the last of them is appended only if the interrupt came after
\* its self.cambios.append
detectar_cambios_interrumpido(almacen, registro, nuevas_alertas, ahora, i, con_evento) ==
  LET e0 == [alertas |-> almacen, cambios |-> registro,
             nuevas |-> <<>>, actualizadas |-> <<>>, canceladas |-> <<>>]
      hechas == bucle_lote(SubSeq(nuevas_alertas, 1, i), Strftime(ahora), 1, e0)
      antes == IF i = 0 THEN e0
               ELSE bucle_lote(SubSeq(nuevas_alertas, 1, i - 1), Strftime(ahora), 1, e0)
  IN  [alertas |-> hechas.alertas,
       cambios |-> IF con_evento THEN hechas.cambios ELSE antes.cambios]

\* MonitorSenapred() with no state file, then ejecutar up to the dashboard
InitMonitor ==
  /\ pc = "inicio"
  /\ hoy = CHOOSE d \in Dias : \A e \in Dias : d <= e
  /\ alertas = <<>>
  /\ cambios = <<>>
  /\ archivo = ArchivoAusente
  /\ lote = <<>>
  /\ resultado = SinResultado
  /\ urls_alertas = <<>>
  /\ textos = <<>>
  /\ lote_anterior = <<>>
  /\ previo = SinPrevio
  /\ visitas = 0
  /\ archivo_anterior = ArchivoAusente
  /\ prueba = [nombre |-> "monitor", donde |-> "", alertas |-> <<>>, cambios |-> <<>>]

\* what no step of the loop but the fetch and the reconciliation changes
SinCambioDeCiclo ==
  UNCHANGED << hoy, alertas, cambios, lote, resultado, urls_alertas, textos,
               lote_anterior, previo, visitas >>

\* self.html.generar(...) before `while True` returns
GenerarInicial ==
  /\ pc = "inicio"
  /\ pc' = "consultar"
  /\ SinCambioDeCiclo
  /\ UNCHANGED << archivo, archivo_anterior, prueba >>

\* self.html.generar(...) before `while True` raises (the dashboard files
\* cannot be written): no try encloses the call, the exception leaves
\* ejecutar
FallaInicial ==
  /\ pc = "inicio"
  /\ pc' = "abortado"
  /\ SinCambioDeCiclo
  /\ UNCHANGED << archivo, archivo_anterior, prueba >>

\* `if nuevas or actualizadas or canceladas:` is false: nothing is written
SinCambios ==
  /\ pc = "guardar"
  /\ ~hay_cambios(resultado)
  /\ pc' = "dormir"
  /\ SinCambioDeCiclo
  /\ UNCHANGED << archivo, archivo_anterior, prueba >>

\* _guardar_estado, first step: open(..., 'w') truncates the file
AbrirArchivo ==
  /\ pc = "guardar"
  /\ hay_cambios(resultado)
  /\ archivo_anterior' = archivo
  /\ archivo' = archivo_abierto
  /\ pc' = "escribir"
  /\ SinCambioDeCiclo
  /\ UNCHANGED prueba

\* _guardar_estado, second step: json.dump runs to its end
VolcarEstado ==
  /\ pc = "escribir"
  /\ archivo' = estado_guardado(alertas, cambios)
  /\ pc' = "generar"
  /\ SinCambioDeCiclo
  /\ UNCHANGED << archivo_anterior, prueba >>

\* the process is killed between the two steps
Caida ==
  /\ pc = "escribir"
  /\ pc' = "caido"
  /\ SinCambioDeCiclo
  /\ UNCHANGED << archivo, archivo_anterior, prueba >>

\* self.html.generar(...) in the loop returns
Generar ==
  /\ pc = "generar"
  /\ pc' = "dormir"
  /\ SinCambioDeCiclo
  /\ UNCHANGED << archivo, archivo_anterior, prueba >>

\* self.html.generar(...) in the loop raises: `except Exception` logs it
\* and sleeps 60 seconds
FallaAlGenerar ==
  /\ pc = "generar"
  /\ pc' = "pausa"
  /\ SinCambioDeCiclo
  /\ UNCHANGED << archivo, archivo_anterior, prueba >>

\* time.sleep(60) returns and the loop starts over
Reanudar ==
  /\ pc = "pausa"
  /\ hoy' \in {d \in Dias : d >= hoy}
  /\ pc' = "consultar"
  /\ urls_alertas' = <<>>
  /\ textos' = <<>>
  /\ lote_anterior' = <<lote>>
  /\ previo' = SinPrevio
  /\ UNCHANGED << alertas, cambios, archivo, lote, resultado, visitas,
                  archivo_anterior, prueba >>

\* KeyboardInterrupt anywhere in the try block but inside _detectar_cambios
\* (in obtener_alertas no `except Exception` catches it): the handler
\* prints, calls _guardar_estado and breaks
Interrumpir ==
  /\ pc \in {"consultar", "guardar", "escribir", "generar", "dormir"}
  /\ prueba' = [prueba EXCEPT !.donde = pc, !.alertas = alertas, !.cambios = cambios]
  /\ archivo_anterior' = archivo
  /\ archivo' = estado_guardado(alertas, cambios)
  /\ pc' = "interrumpido"
  /\ SinCambioDeCiclo

\* KeyboardInterrupt inside _detectar_cambios, between two statements of
\* its first loop or after it: the handler saves what the call had done
InterrumpirDeteccion ==
  /\ pc = "detectar"
  /\ \E i \in 0..Len(lote), con_evento \in BOOLEAN :
       LET r == detectar_cambios_interrumpido(alertas, cambios, lote, hoy, i, con_evento)
       IN  /\ alertas' = r.alertas
           /\ cambios' = r.cambios
           /\ archivo' = estado_guardado(r.alertas, r.cambios)
  /\ prueba' = [prueba EXCEPT !.donde = pc, !.alertas = alertas, !.cambios = cambios]
  /\ archivo_anterior' = archivo
  /\ pc' = "interrumpido"
  /\ UNCHANGED << hoy, lote, resultado, urls_alertas, textos, lote_anterior, previo, visitas >>

NextMonitor ==
  \/ GenerarInicial \/ FallaInicial
  \/ ObtenerAlertas \/ DetectarCambios
  \/ SinCambios \/ AbrirArchivo \/ VolcarEstado \/ Caida
  \/ Generar \/ FallaAlGenerar
  \/ Dormir \/ Reanudar
  \/ Interrumpir \/ InterrumpirDeteccion

SpecMonitor == InitMonitor /\ [][NextMonitor]_vars

(***************************************************************************)
(* C13.  The store is persisted after every cycle of ejecutar, also after  *)
(* a cycle without change events: when the cycle ends (the loop is about   *)
(* to sleep) the state file holds exactly the records of the store and its *)
(* most recent events.                                                     *)
(***************************************************************************)
C13_PersistidoCadaCiclo ==
  pc = "dormir" => archivo = estado_guardado(alertas, cambios)

(***************************************************************************)
(* C14.  The state file is never partially written: when the process is    *)
(* killed during _guardar_estado, what _cargar_estado reads from the file  *)
(* afterwards is the complete state the file held before, or the complete  *)
(* state that was being written.                                           *)
(***************************************************************************)
C14_EscrituraAtomica ==
  pc = "caido" =>
    LET leido == cargar_estado(archivo)
        viejo == cargar_estado(archivo_anterior)
    IN  \/ leido.alertas = viejo.alertas /\ leido.cambios = viejo.cambios
        \/ leido.alertas = alertas /\ leido.cambios = Ultimos(cambios, CambiosGuardados)

(***************************************************************************)
(* C15.  Reconciliation is atomic with respect to persistence: what the    *)
(* KeyboardInterrupt handler writes with _guardar_estado is the store as   *)
(* it was before, or as it is after, a complete _detectar_cambios call,    *)
(* wherever in the cycle the interrupt came.                               *)
(***************************************************************************)
C15_GuardadoCompleto ==
  pc = "interrumpido" =>
    \/ archivo = estado_guardado(prueba.alertas, prueba.cambios)
    \/ /\ prueba.donde = "detectar"
       /\ LET r == detectar_cambios(prueba.alertas, prueba.cambios, lote, hoy)
          IN  archivo = estado_guardado(r.alertas, r.cambios)

(***************************************************************************)
(* C16.  A cycle abandoned while fetching (KeyboardInterrupt inside        *)
(* obtener_alertas) leaves the records of the store and the log as they    *)
(* were when the cycle began, with no event added, and that state is what  *)
(* the handler writes to the state file.                                   *)
(***************************************************************************)
C16_CicloAbortado ==
  (pc = "interrumpido" /\ prueba.donde = "consultar")
    => /\ alertas = prueba.alertas
       /\ cambios = prueba.cambios
       /\ archivo.existe /\ archivo.json_valido
       /\ archivo.alertas = prueba.alertas
       /\ archivo.cambios = Ultimos(prueba.cambios, CambiosGuardados)

\* the fetch was interrupted in a later cycle, the store holding a retracted
\* record and an active one
C16_Testigo ==
  /\ pc = "interrumpido"
  /\ prueba.donde = "consultar"
  /\ cambios # <<>>
  /\ \E k \in 1..Len(alertas) : alertas[k].estado_monitor = "cancelada"
  /\ \E k \in 1..Len(alertas) : alertas[k].estado_monitor = "activa"

(***************************************************************************)
(* C18.  No error terminates the monitor: ejecutar is never left through   *)
(* an exception other than KeyboardInterrupt.                              *)
(***************************************************************************)
C18_SoloInterrupcion == pc # "abortado"

(***************************************************************************)
(* One call of obtener_alertas in which pages may fail.                    *)
(***************************************************************************)
InitExtraccion ==
  /\ pc = "consultar"
  /\ hoy \in Dias
  /\ alertas = <<>>
  /\ cambios = <<>>
  /\ archivo = ArchivoAusente
  /\ lote = <<>>
  /\ resultado = SinResultado
  /\ urls_alertas = <<>>
  /\ textos = <<>>
  /\ lote_anterior = <<>>
  /\ previo = SinPrevio
  /\ visitas = 0
  /\ archivo_anterior = ArchivoAusente
  /\ prueba = [nombre |-> "extraccion"]

\* alertas = self.scraper.obtener_alertas(), some pages raising
ObtenerAlertasConFallas == ObtenerAlertasCon(Textos \cup {PaginaRota})

NextExtraccion == ObtenerAlertasConFallas

SpecExtraccion == InitExtraccion /\ [][NextExtraccion]_vars

\* the listing positions whose extraction raised
Rotas == {k \in Visitadas : textos[k] = PaginaRota}

(***************************************************************************)
(* C17.  Partial-failure isolation: a listed URL whose extraction raises   *)
(* contributes no record to the batch, and every other listed URL is still *)
(* extracted: when its page gives a record, the batch holds a record of    *)
(* its id, and holds that very record unless an earlier listed URL gave    *)
(* one with the same id.                                                   *)
(***************************************************************************)
C17_FallaAislada ==
  Consultado =>
    /\ \A k \in Rotas : \A i \in 1..Len(lote) : lote[i].url # urls_alertas[k]
    /\ \A k \in Visitadas \ Rotas :
         LET alerta == extraer_detalle_completo(urls_alertas[k], textos[k], hoy)
         IN  alerta # None =>
               /\ alerta[1].id \in IdsDelLote
               /\ (\A j \in Candidatas(alerta[1].id) : k <= j)
                    => \E i \in 1..Len(lote) : lote[i] = alerta[1]

\* the first listed page raised and the page listed after it gave a record
C17_Testigo ==
  /\ Consultado
  /\ 1 \in Rotas
  /\ \E k \in Visitadas \ Rotas : k > 1 /\ \E i \in 1..Len(lote) : lote[i].url = urls_alertas[k]

(***************************************************************************)
(* generar_id_desde_url and the URL normalisation of obtener_alertas,      *)
(* applied to two URLs.                                                    *)
(***************************************************************************)
\* trailing slashes a URL under test can have
MaxBarras == 1

\* scheme, host and path up to the last segment
PrefijosDePrueba == {<<"s", "/">>, <<"t", "/">>}

\* last segments: short ones, one ending with a time stamp, and two of 81
\* characters that differ in the last one
SegmentosDePrueba ==
  { <<"a">>, <<"A">>, <<"b", "@0">>,
    <<"@0", "@0", "@0", "@0", "a", "a", "a", "a", "a">>,
    <<"@0", "@0", "@0", "@0", "a", "a", "a", "a", "b">> }

Barras(n) == [k \in 1..n |-> "/"]

UrlsDePrueba ==
  {p \o g \o Barras(n) : p \in PrefijosDePrueba, g \in SegmentosDePrueba, n \in 0..MaxBarras}

InitIdentidad ==
  /\ pc = "identificar"
  /\ hoy = CHOOSE d \in Dias : \A e \in Dias : d <= e
  /\ alertas = <<>>
  /\ cambios = <<>>
  /\ archivo = ArchivoAusente
  /\ lote = <<>>
  /\ resultado = SinResultado
  /\ urls_alertas = <<>>
  /\ textos = <<>>
  /\ lote_anterior = <<>>
  /\ previo = SinPrevio
  /\ visitas = 0
  /\ archivo_anterior = ArchivoAusente
  /\ \E l1, l2 \in UrlsDePrueba :
       prueba = [nombre |-> "identidad", l1 |-> l1, l2 |-> l2,
                 id1 |-> <<>>, id2 |-> <<>>, normalizada1 |-> <<>>, normalizada2 |-> <<>>]

\* id=generar_id_desde_url(url) and url_normalizada = url.rstrip('/').lower()
\* for each of the two URLs
GenerarIds ==
  /\ pc = "identificar"
  /\ prueba' = [prueba EXCEPT !.id1 = generar_id_desde_url(prueba.l1),
                              !.id2 = generar_id_desde_url(prueba.l2),
                              !.normalizada1 = url_normalizada(prueba.l1),
                              !.normalizada2 = url_normalizada(prueba.l2)]
  /\ pc' = "identificado"
  /\ UNCHANGED << hoy, alertas, cambios, archivo, lote, resultado, urls_alertas, textos,
                  lote_anterior, previo, visitas, archivo_anterior >>

NextIdentidad == GenerarIds

SpecIdentidad == InitIdentidad /\ [][NextIdentidad]_vars

(***************************************************************************)
(* C19.  Identity is collision-free: two different locators never get the  *)
(* same id from generar_id_desde_url.  (Locators that differ only in       *)
(* letter case or trailing slashes, which C20 wants to share an id, are    *)
(* not held against the claim.)                                            *)
(***************************************************************************)
C19_SinColision ==
  (pc = "identificado" /\ prueba.normalizada1 # prueba.normalizada2)
    => prueba.id1 # prueba.id2

(***************************************************************************)
(* C20.  Identity is computed from the normalized locator: two locators    *)
(* that differ only in letter case or trailing slashes (that are equal     *)
(* after url.rstrip('/').lower(), the normalisation of obtener_alertas)    *)
(* get the same id from generar_id_desde_url.                              *)
(***************************************************************************)
C20_IdNormalizada ==
  (pc = "identificado" /\ prueba.normalizada1 = prueba.normalizada2)
    => prueba.id1 = prueba.id2

(***************************************************************************)
(* A monitor late in its life: its log has grown over many cycles, and one *)
(* more batch is reconciled and saved.                                     *)
(***************************************************************************)
\* the log n cycles leave about one alert that is found, then in turn
\* missing and back with another text
HistoriaDeCiclos(r, n) ==
  [k \in 1..n |->
     IF k = 1
     THEN CambioEstado(r.id, "nueva", Strftime(k), <<r.nivel_alerta, r.region, r.amenaza>>)
     ELSE CambioEstado(r.id, IF k % 2 = 0 THEN "cancelada" ELSE "actualizada",
                       Strftime(k), <<r.nivel_alerta, r.region>>)]

\* the batches obtener_alertas can return: records as extracted, no id twice
LotesDePrueba ==
  {l \in Almacenes(MaxRegistros) : \A k \in 1..Len(l) : l[k].estado_monitor = "activa"}

\* ejecutar about to call _detectar_cambios, n events logged so far
InitHistoria ==
  /\ pc = "detectar"
  /\ hoy = CHOOSE d \in Dias : \A e \in Dias : d <= e
  /\ \E n \in LargosDeHistoria :
       \E r \in {x \in RegistrosDePrueba : x.estado_monitor = "activa" /\ x.id = <<"a">>} :
         /\ cambios = HistoriaDeCiclos(r, n)
         /\ alertas = IF n = 0 THEN <<>>
                      ELSE IF n % 2 = 0 THEN <<[r EXCEPT !.estado_monitor = "cancelada"]>>
                      ELSE <<r>>
  /\ archivo = ArchivoAusente
  /\ lote \in LotesDePrueba
  /\ resultado = SinResultado
  /\ urls_alertas = <<>>
  /\ textos = <<>>
  /\ lote_anterior = <<>>
  /\ previo = SinPrevio
  /\ visitas = 0
  /\ archivo_anterior = ArchivoAusente
  /\ prueba = [nombre |-> "historia"]

NextHistoria == DetectarCambios \/ GuardarEstado

SpecHistoria == InitHistoria /\ [][NextHistoria]_vars

(***************************************************************************)
(* C21.  Bounded history on persistence: in every step the log keeps the   *)
(* events it had, unaltered and in place (it only grows at its end), and   *)
(* what _guardar_estado writes as history is the last CambiosGuardados     *)
(* events of the log in their order, all of them when the log is shorter:  *)
(* never more than CambiosGuardados entries.                               *)
(***************************************************************************)
C21_Paso ==
  /\ Len(cambios') >= Len(cambios)
  /\ \A k \in 1..Len(cambios) : cambios'[k] = cambios[k]
  /\ archivo' # archivo =>
       LET n == Len(archivo'.cambios)
       IN  /\ n <= CambiosGuardados
           /\ n = IF Len(cambios') <= CambiosGuardados THEN Len(cambios') ELSE CambiosGuardados
           /\ \A k \in 1..n : archivo'.cambios[k] = cambios'[Len(cambios') - n + k]

\* C21: every step keeps the log's events and writes at most its last
\* CambiosGuardados events
C21_HistoriaAcotada == [][C21_Paso]_vars

\* a cycle appended events to a log of CambiosGuardados events or more, and
\* the file got its last CambiosGuardados events
C21_Testigo ==
  /\ pc = "dormir"
  /\ previo.n_cambios >= CambiosGuardados
  /\ Len(cambios) > previo.n_cambios
  /\ archivo.existe
  /\ Len(archivo.cambios) = CambiosGuardados
  /\ archivo.cambios[CambiosGuardados] = cambios[Len(cambios)]

(***************************************************************************)
(* C22.  Age filter before reconciliation: the batch handed to             *)
(* _detectar_cambios holds no record whose declaration date is more than   *)
(* DiasMax days before the day of the poll; a listed URL dated exactly     *)
(* DiasMax days back is fetched, and the record its page gives is in the   *)
(* batch.                                                                  *)
(***************************************************************************)
\* the listing positions dated exactly DiasMax days back whose URL is not a
\* repeat of an earlier one
EnElLimite ==
  {k \in 1..Len(urls_alertas) :
     /\ parsear_fecha_desde_url(urls_alertas[k]).fecha # <<>>
     /\ hoy - parsear_fecha_desde_url(urls_alertas[k]).fecha[1] = DiasMax
     /\ \A j \in 1..(k - 1) :
          url_normalizada(urls_alertas[j]) # url_normalizada(urls_alertas[k])}

UrlsDeDetalle ==
  { <<"s", "/", "a">>, <<"s", "/", "b", "@0">>, <<"s", "/", "c", "@20">> }

\* the category phrases a lowercased text can hold ("alerta temprana
\* preventiva" holds the two shorter ones)
MarcasDeDetalle ==
  { {}, {"alerta roja"}, {"alerta roja", "alerta amarilla"}, {"preventiva"},
    {"alerta temprana preventiva", "alerta temprana", "preventiva"} }

\* Page texts of the extraction.  frase_fecha: <<d>>, d the day a phrase
\* "D de <mes> de YYYY" of the text names, <<>> when the text has none;
\* hora_texto: what the pattern hh:mm finds, "" when nothing.
TextosDeDetalle ==
  { [marcas |-> m, regiones |-> r, frase_region |-> fr, claves |-> c,
     cabecera |-> "c1", frase_fecha |-> ff.fecha, hora_texto |-> ff.hora] :
      m \in MarcasDeDetalle,
      r \in { {}, {"Valparaíso"}, {"Maule", "Coquimbo"} },
      fr \in { <<>>, <<"Los Andes">> },
      c \in { {}, {"temporal"}, {"temporal", "calor intenso"},
              {"sismo", "tsunami", "terremoto"} },
      ff \in { [fecha |-> <<>>, hora |-> ""], [fecha |-> <<10>>, hora |-> "10:30"] } }

\* parsear_fecha_texto: the date of the phrase and the hour found in the text
parsear_fecha_texto(texto) ==
  [fecha |-> IF texto.frase_fecha # <<>> THEN Strftime(texto.frase_fecha[1]) ELSE <<>>,
   hora |-> texto.hora_texto]

InitDetalle ==
  /\ pc = "extraer"
  /\ hoy \in Dias
  /\ alertas = <<>>
  /\ cambios = <<>>
  /\ archivo = ArchivoAusente
  /\ lote = <<>>
  /\ resultado = SinResultado
  /\ urls_alertas = <<>>
  /\ textos = <<>>
  /\ lote_anterior = <<>>
  /\ previo = SinPrevio
  /\ visitas = 0
  /\ archivo_anterior = ArchivoAusente
  /\ \E l \in UrlsDeDetalle, t \in TextosDeDetalle :
       prueba = [nombre |-> "detalle", url |-> l, texto |-> t, alerta |-> None,
                 region |-> "", amenaza |-> ""]

\* alerta = self._extraer_detalle_completo(url), and the two extractors the
\* claims are about applied to the text of the page
ExtraerDetalle ==
  /\ pc = "extraer"
  /\ prueba' = [prueba EXCEPT
                  !.alerta = extraer_detalle_completo(prueba.url, prueba.texto, hoy),
                  !.region = extraer_region(prueba.texto),
                  !.amenaza = extraer_amenaza(prueba.texto)]
  /\ pc' = "extraido"
  /\ UNCHANGED << hoy, alertas, cambios, archivo, lote, resultado, urls_alertas, textos,
                  lote_anterior, previo, visitas, archivo_anterior >>

NextDetalle == ExtraerDetalle

SpecDetalle == InitDetalle /\ [][NextDetalle]_vars

\* the extraction of the page has given a record
Extraida == pc = "extraido" /\ prueba.alerta # None

(***************************************************************************)
(* C23.  The declaration date and time of a record come from the locator   *)
(* when it ends with a date-time; otherwise from a phrase "D de <mes> de   *)
(* YYYY" of the page text; otherwise they are the instant of observation   *)
(* and the placeholder "--:--".                                            *)
(***************************************************************************)
C23_CascadaDeFecha ==
  Extraida =>
    LET a == prueba.alerta[1]
        f == parsear_fecha_desde_url(prueba.url)
        g == parsear_fecha_texto(prueba.texto)
    IN  IF f.fecha # <<>>
        THEN a.fecha_declaracion = f.fecha /\ a.hora_declaracion = f.hora
        ELSE IF g.fecha # <<>>
        THEN a.fecha_declaracion = g.fecha
        ELSE a.fecha_declaracion = Strftime(hoy) /\ a.hora_declaracion = "--:--"

(***************************************************************************)
(* C24.  The age in days of a record is never negative: it is zero when    *)
(* the declaration date is later than the day of the observation.          *)
(***************************************************************************)
C24_AntiguedadNoNegativa ==
  Extraida => prueba.alerta[1].dias_antiguedad >= 0

(***************************************************************************)
(* C25.  The hazard label is the label of the first entry of the table,    *)
(* in the order of the table, whose keyword is in the text, and            *)
(* "Emergencia" when no keyword of the table is in it.                     *)
(***************************************************************************)
C25_PrimeraAmenaza ==
  pc = "extraido" =>
    /\ \A i \in 1..Len(AMENAZAS) :
         (/\ AMENAZAS[i][1] \in prueba.texto.claves
          /\ \A j \in 1..(i - 1) : AMENAZAS[j][1] \notin prueba.texto.claves)
           => /\ prueba.amenaza = AMENAZAS[i][2]
              /\ prueba.alerta # None => prueba.alerta[1].amenaza = AMENAZAS[i][2]
    /\ (\A i \in 1..Len(AMENAZAS) : AMENAZAS[i][1] \notin prueba.texto.claves)
         => /\ prueba.amenaza = "Emergencia"
            /\ prueba.alerta # None => prueba.alerta[1].amenaza = "Emergencia"

\* a text with two keywords got the label of the one that is first in the
\* table, though "temporal" is also found in it
C25_Testigo ==
  /\ Extraida
  /\ {"temporal", "calor intenso"} \subseteq prueba.texto.claves
  /\ prueba.alerta[1].amenaza = "Calor Intenso"

(***************************************************************************)
(* C26.  A page text with a category marker, without the name of a region  *)
(* and without a phrase "región de ..." still gives a record, whose region *)
(* is "No especificada".                                                   *)
(***************************************************************************)
\* the text of the page holds a category marker but nothing naming a region
SinRegion ==
  /\ prueba.texto.marcas \cap {"alerta roja", "alerta amarilla", "alerta temprana",
                               "preventiva"} # {}
  /\ prueba.texto.regiones = {}
  /\ prueba.texto.frase_region = <<>>

C26_RegionNoEspecificada ==
  (pc = "extraido" /\ SinRegion)
    => /\ prueba.region = "No especificada"
       /\ prueba.alerta # None
       /\ prueba.alerta[1].region = "No especificada"

C26_Testigo ==
  /\ Extraida
  /\ SinRegion
  /\ prueba.alerta[1].region = "No especificada"
  /\ prueba.alerta[1].tipo = "temprana"

(***************************************************************************)
(* C27.  Store and log agree: every id of the store has at least one event *)
(* in the log, and the stored status of an id is "cancelada" exactly when  *)
(* the latest event of the log about that id is of kind "cancelada"; it is *)
(* "activa" otherwise.                                                     *)
(***************************************************************************)
\* the positions of the log that are about this id
EventosDe(id) == {n \in 1..Len(cambios) : cambios[n].alerta_id = id}

\* the latest event of the log about this id
UltimoEventoDe(id) == cambios[CHOOSE n \in EventosDe(id) : \A m \in EventosDe(id) : m <= n]

C27_AlmacenYRegistro ==
  \A k \in 1..Len(alertas) :
    /\ EventosDe(alertas[k].id) # {}
    /\ alertas[k].estado_monitor \in {"activa", "cancelada"}
    /\ alertas[k].estado_monitor = "cancelada"
         <=> UltimoEventoDe(alertas[k].id).tipo_cambio = "cancelada"

\* a record that was retracted is active again, with an "actualizada" event
\* after its "cancelada" one
C27_Testigo ==
  /\ Reconciliado
  /\ \E k \in 1..Len(alertas) :
       /\ alertas[k].estado_monitor = "activa"
       /\ UltimoEventoDe(alertas[k].id).tipo_cambio = "actualizada"
       /\ \E n \in EventosDe(alertas[k].id) : cambios[n].tipo_cambio = "cancelada"

(***************************************************************************)
(* The polling loop with fetches that fail: the browser does not start,    *)
(* the listing fails or is empty, or an exception gets out of the loop     *)
(* over the listed URLs.  prueba.causa tells how the fetch of the current  *)
(* cycle failed, "" when it did not.                                       *)
(***************************************************************************)
\* a slip: the records collected before the exception are returned
lote_parcial_tras_error(parciales) == parciales

\* `except Exception as e: ... return []` of obtener_alertas: what was
\* collected is dropped
lote_tras_error(parciales) == <<>>

\* the page texts of these polls: those with a category, which give a record
PaginasConCategoria == {t \in Textos : detectar_tipo(t) # ""}

InitFallo ==
  /\ pc = "consultar"
  /\ hoy = CHOOSE d \in Dias : \A e \in Dias : d <= e
  /\ alertas = <<>>
  /\ cambios = <<>>
  /\ archivo = ArchivoAusente
  /\ lote = <<>>
  /\ resultado = SinResultado
  /\ urls_alertas = <<>>
  /\ textos = <<>>
  /\ lote_anterior = <<>>
  /\ previo = SinPrevio
  /\ visitas = 0
  /\ archivo_anterior = ArchivoAusente
  /\ prueba = [nombre |-> "fallo", causa |-> ""]

\* obtener_alertas runs to its end
ObtenerAlertasSinFalla ==
  /\ Consultar(PaginasConCategoria)
  /\ prueba' = [prueba EXCEPT !.causa = ""]

\* obtener_alertas returns [] before the loop, no page having been fetched
SinListado(causa) ==
  /\ pc = "consultar"
  /\ urls_alertas' = <<>>
  /\ textos' = <<>>
  /\ lote' = <<>>
  /\ prueba' = [prueba EXCEPT !.causa = causa]
  /\ pc' = "detectar"
  /\ UNCHANGED << hoy, alertas, cambios, archivo, resultado, lote_anterior, previo,
                  visitas, archivo_anterior >>

\* self._crear_driver() raises: `except Exception` returns []
FallaNavegador == SinListado("navegador")

\* driver.get of the listing page raises inside _obtener_lista_urls, which
\* logs and returns the list it has, still empty: `if not urls_alertas`
FallaListado == SinListado("listado")

\* the listing page has no link to an alert: `if not urls_alertas: return []`
ListadoVacio == SinListado("sin_urls")

\* an exception is raised in the j-th iteration of the loop, outside of
\* _extraer_detalle_completo, after the listed URLs `hechas` were handled
\* (all of them serving the text t); the listing and the records collected
\* are locals of the call and are gone with it
FallaEnBucle ==
  /\ pc = "consultar"
  /\ \E hechas \in Listados(MaxUrls) \ {<<>>} :
       LET j == Len(hechas)
           extraidas == obtener_alertas(hechas, [i \in 1..j |-> SinTexto], hoy).extraidas
       IN  /\ visitas + Cardinality(extraidas) <= MaxVisitas
           /\ \E t \in PaginasConCategoria :
                LET tx == [i \in 1..j |-> IF i \in extraidas THEN t ELSE SinTexto]
                IN  /\ urls_alertas' = <<>>
                    /\ textos' = <<>>
                    /\ lote' = lote_tras_error(obtener_alertas(hechas, tx, hoy).alertas)
                /\ visitas' = visitas + Cardinality(extraidas)
  /\ prueba' = [prueba EXCEPT !.causa = "bucle"]
  /\ pc' = "detectar"
  /\ UNCHANGED << hoy, alertas, cambios, archivo, resultado, lote_anterior, previo,
                  archivo_anterior >>

NextFallo ==
  \/ ObtenerAlertasSinFalla
  \/ FallaNavegador
  \/ FallaListado
  \/ ListadoVacio
  \/ FallaEnBucle
  \/ DetectarCambios
  \/ GuardarEstado
  \/ Dormir

SpecFallo == InitFallo /\ [][NextFallo]_vars

\* the fetch of the current cycle failed
Fallida == Consultado /\ prueba.causa # ""

(***************************************************************************)
(* C28.  A failed fetch is an empty source: when the browser does not      *)
(* start, the listing fails or has no URL, or an exception gets out of the *)
(* loop over the URLs, obtener_alertas returns the empty batch, and the    *)
(* _detectar_cambios of that cycle sets every stored record that was       *)
(* active to "cancelada", with one "cancelada" event for each.             *)
(***************************************************************************)
C28_FalloComoVacio ==
  Fallida =>
    /\ lote = <<>>
    /\ Reconciliado =>
         /\ \A k \in 1..Len(previo.alertas) :
              previo.alertas[k].estado_monitor = "activa"
                => /\ guardada(alertas, previo.alertas[k].id).estado_monitor = "cancelada"
                   /\ NumEventosDeTipo(previo.alertas[k].id, "cancelada") = 1
                   /\ NumEventos(previo.alertas[k].id) = 1
         /\ \A k \in 1..Len(alertas) : alertas[k].estado_monitor = "cancelada"

\* an exception in the loop, and the two active records of the store
\* retracted
C28_Testigo ==
  /\ Reconciliado
  /\ prueba.causa = "bucle"
  /\ Len(previo.alertas) = 2
  /\ \A k \in 1..Len(previo.alertas) : previo.alertas[k].estado_monitor = "activa"
  /\ Len(resultado.canceladas) = 2

====
